---- MODULE Spec2Model ----
(***************************************************************************)
(* Model of tornado_simulator.py: the frame loop of TornadoSimulator.run,  *)
(* the particle motion of Particle.update and the debris lifecycle of      *)
(* Debris.spawn / Debris.update / TornadoSimulator.update.                 *)
(*                                                                         *)
(* Fixed point.  The code computes in floats; the model computes the same  *)
(* expressions exactly, over integers:                                     *)
(*   dt, time, lifetime        milliseconds  (clock.tick returns ms)       *)
(*   radius_seed, swirl_variation, brightness, swirl     tenths            *)
(*   angle                     1e-5 rad   (swirl/10 * dt/1000 * var/10)    *)
(*   altitude                  1e-5 unit  (lift * dt/1000 * (40+6s)/100)   *)
(*   velocity_x, velocity_y    1e-3 unit/s (220 * dt/1000)                 *)
(*   x, y                      1e-6 unit  (velocity/1000 * dt/1000)        *)
(***************************************************************************)
EXTENDS Integers, Sequences

\* ---- bounds of the model ------------------------------------------------
\* particles in the field (PARTICLES_PER_LEVEL is 220 in the program)
NumParticles == 1
\* iterations of the while loop of run() that are explored
MaxFrames == 2

\* ---- configuration (lines 13-33) ----------------------------------------
HEIGHT == 720
WIDTH == 960
FPS == 60
CENTER_X == WIDTH \div 2
GROUND_Y == (HEIGHT * 85) \div 100
MAX_TORNADO_HEIGHT == (HEIGHT * 75) \div 100

\* fixed-point scales (see the header)
AltUnit == 10 * 10 * 1000
PosUnit == 1000 * 1000
VelUnit == 10 * 100

H_MAX == MAX_TORNADO_HEIGHT * AltUnit
\* math.tau = 6.283185...: the largest angle of the 1e-5 grid below it, so
\* an angle g is in [0, tau) exactly when 0 <= g <= TAU
TAU == 628318

EF_LEVELS ==
  << [name |-> "EF0", swirl |-> 12, lift |-> 120, base_radius |-> 130, debris |-> 12],
     [name |-> "EF1", swirl |-> 16, lift |-> 160, base_radius |-> 155, debris |-> 18],
     [name |-> "EF2", swirl |-> 22, lift |-> 200, base_radius |-> 180, debris |-> 26],
     [name |-> "EF3", swirl |-> 29, lift |-> 240, base_radius |-> 210, debris |-> 35],
     [name |-> "EF4", swirl |-> 36, lift |-> 300, base_radius |-> 240, debris |-> 47],
     [name |-> "EF5", swirl |-> 45, lift |-> 360, base_radius |-> 280, debris |-> 60] >>

\* self.level_names = list(EF_LEVELS.keys()); level_index is 0-based
NumLevels == Len(EF_LEVELS)

\* current_level: EF_LEVELS[self.level_names[self.level_index]]
current_level(i) == EF_LEVELS[i + 1]

\* ---- pygame key codes and events ----------------------------------------
K_RETURN == 13
K_ESCAPE == 27
K_SPACE == 32
K_0 == 48
K_5 == 53

QuitEvent == [type |-> "QUIT", key |-> 0]
KeyDown(k) == [type |-> "KEYDOWN", key |-> k]

\* What one pygame.event.get() can return: no event, one command, or the
\* quit signal followed by a command.
\* K_0 + 7 is a digit key above the level range.
Batches ==
  { <<>>,
    << KeyDown(K_SPACE) >>,
    << KeyDown(K_5) >>,
    << KeyDown(K_0 + 7) >>,
    << KeyDown(K_ESCAPE) >>,
    << QuitEvent, KeyDown(K_RETURN) >> }

\* what clock.tick(FPS) can return, in ms: never less than the frame
\* interval int(1000/FPS); a slow or stalled frame returns more
FrameInterval == 1000 \div FPS
DtSet == { FrameInterval + 1, 500, 1600 }

\* ---- random draws ---------------------------------------------------------
\* The draws of one Particle.random: uniform(0.2, 1.0), uniform(0.0,
\* MAX_TORNADO_HEIGHT), uniform(0.0, math.tau), uniform(0.6, 1.4) and
\* uniform(0.5, 1.0), each in the unit of its field.
ParticleDraws ==
  { [radius_seed |-> 10, altitude |-> H_MAX - 10 * AltUnit, angle |-> TAU,
     swirl_variation |-> 14, brightness |-> 10],
    [radius_seed |-> 2, altitude |-> 0, angle |-> 0,
     swirl_variation |-> 6, brightness |-> 5] }

\* The draws of one wrap (lines 86-88): uniform(0.0, math.tau),
\* uniform(0.2, 1.0) and uniform(0.5, 1.0).
WrapDraws ==
  { [angle |-> TAU, radius_seed |-> 10, brightness |-> 5],
    [angle |-> 0, radius_seed |-> 2, brightness |-> 10] }

Min(a, b) == IF a < b THEN a ELSE b

VARIABLES
  pc,             \* position in run(): loop, poll, events, particles, spawn, sweep, draw, done
  running,        \* local `running` of run()
  dt,             \* local `dt` of run(), ms
  time,           \* self.time, ms
  frame,          \* number of loop iterations started (bounded by MaxFrames)
  events,         \* events of pygame.event.get() not yet iterated
  level_index,    \* self.level_index
  level,          \* local `level` of update(): index of the level it read
  particles,      \* self.particles
  debris_particles, \* self.debris_particles
  reaped,         \* history: the entities line 196 removed in this frame
  screen          \* what draw() presented last: the level drawn

vars == << pc, running, dt, time, frame, events, level_index, level,
           particles, debris_particles, reaped, screen >>

\* ---- Particle (lines 63-88) ---------------------------------------------
\* Particle.random (lines 71-79)
ParticleRandom(r) ==
  [radius_seed |-> r.radius_seed, altitude |-> r.altitude, angle |-> r.angle,
   swirl_variation |-> r.swirl_variation, brightness |-> r.brightness]

\* AngleStep without the per-particle jitter
AngleStepNoJitter(p, d, swirl_speed) == swirl_speed * d * 10

\* line 82: swirl_speed * dt * self.swirl_variation
AngleStep(p, d, swirl_speed) == swirl_speed * d * p.swirl_variation

\* line 83: lift_speed * dt * (0.4 + 0.6 * self.radius_seed)
LiftStep(p, d, lift_speed) == lift_speed * d * (40 + 6 * p.radius_seed)

\* Particle.update wrapping the altitude without drawing a new angle
ParticleUpdateKeepAngle(p, d, swirl_speed, lift_speed, w) ==
  LET angle1 == p.angle + swirl_speed * d * p.swirl_variation
      altitude1 == p.altitude + lift_speed * d * (40 + 6 * p.radius_seed)
  IN IF altitude1 > H_MAX
     THEN [p EXCEPT !.altitude = altitude1 - H_MAX,
                    !.angle = angle1,
                    !.radius_seed = w.radius_seed,
                    !.brightness = w.brightness]
     ELSE [p EXCEPT !.altitude = altitude1, !.angle = angle1]

\* Particle.update wrapping the altitude without drawing a new brightness
ParticleUpdateKeepBrightness(p, d, swirl_speed, lift_speed, w) ==
  LET angle1 == p.angle + swirl_speed * d * p.swirl_variation
      altitude1 == p.altitude + lift_speed * d * (40 + 6 * p.radius_seed)
  IN IF altitude1 > H_MAX
     THEN [p EXCEPT !.altitude = altitude1 - H_MAX,
                    !.angle = w.angle,
                    !.radius_seed = w.radius_seed]
     ELSE [p EXCEPT !.altitude = altitude1, !.angle = angle1]

\* Particle.update (lines 81-88); w holds the draws a wrap makes
ParticleUpdate(p, d, swirl_speed, lift_speed, w) ==
  LET angle1 == p.angle + AngleStep(p, d, swirl_speed)
      altitude1 == p.altitude + LiftStep(p, d, lift_speed)
  IN IF altitude1 > H_MAX
     THEN [p EXCEPT !.altitude = altitude1 - H_MAX,
                    !.angle = w.angle,
                    !.radius_seed = w.radius_seed,
                    !.brightness = w.brightness]
     ELSE [p EXCEPT !.altitude = altitude1, !.angle = angle1]

\* ---- Debris (lines 105-129) ---------------------------------------------
\* The draws of one Debris.spawn: cos(angle) in thousandths, the distance
\* uniform(10, 80), the speed uniform(80, 220), the drop uniform(5, 20), the
\* kick uniform(30, 160) and the lifetime uniform(0.6, 1.4) in ms.
SpawnDraws ==
  { [cos |-> 1000, dist |-> 10, speed |-> 80, drop |-> 5, kick |-> 30, lifetime |-> 1400],
    [cos |-> -500, dist |-> 80, speed |-> 220, drop |-> 20, kick |-> 160, lifetime |-> 1000] }

\* Debris.spawn (lines 113-123).  age and life0 are history fields, not
\* fields of the dataclass: the time the entity has been updated for, and
\* the lifetime it was spawned with.
DebrisSpawn(r) ==
  [x |-> CENTER_X * PosUnit + r.cos * r.dist * VelUnit,
   y |-> GROUND_Y * PosUnit - r.drop * PosUnit,
   velocity_x |-> r.cos * r.speed,
   velocity_y |-> -(r.kick * VelUnit),
   lifetime |-> r.lifetime,
   age |-> 0, life0 |-> r.lifetime]

\* Debris.update (lines 125-129)
DebrisUpdate(b, d) ==
  LET vy == b.velocity_y + 220 * d
  IN [b EXCEPT !.velocity_y = vy,
               !.x = b.x + b.velocity_x * d,
               !.y = b.y + vy * d,
               !.lifetime = b.lifetime - d,
               !.age = b.age + d]

\* the dataclass __eq__ of Debris (line 105): the five fields
DebrisEq(a, b) ==
  /\ a.x = b.x /\ a.y = b.y
  /\ a.velocity_x = b.velocity_x /\ a.velocity_y = b.velocity_y
  /\ a.lifetime = b.lifetime

\* list.remove (line 196): drops the first element equal to b
RECURSIVE ListRemove(_, _)
ListRemove(l, b) ==
  IF l = <<>> THEN <<>>
  ELSE IF DebrisEq(Head(l), b) THEN Tail(l)
  ELSE <<Head(l)>> \o ListRemove(Tail(l), b)

\* the removal test with < for <=
ExpiredStrict(b) == b.lifetime < 0 \/ b.y > HEIGHT * PosUnit

\* line 195: the removal test
Expired(b) == b.lifetime <= 0 \/ b.y > HEIGHT * PosUnit

\* one iteration over the list itself instead of its copy: a removal
\* shifts the list under the iterator, which then skips the next entity
SweepStepNoCopy(st, d) ==
  LET b == DebrisUpdate(st.list[st.pos], d)
      l1 == [st.list EXCEPT ![st.pos] = b]
  IN IF b.lifetime <= 0 \/ b.y > HEIGHT * PosUnit
     THEN [list |-> ListRemove(l1, b), pos |-> st.pos + 1,
           reaped |-> Append(st.reaped, b)]
     ELSE [list |-> l1, pos |-> st.pos + 1, reaped |-> st.reaped]

\* lines 194-196: one iteration of the loop over the copy of the list.
\* st.list is the list, st.pos the position in it of the next entity of
\* the copy (the entities from there on are those not visited yet) and
\* st.reaped the entities removed so far.
SweepStep(st, d) ==
  LET b == DebrisUpdate(st.list[st.pos], d)
      l1 == [st.list EXCEPT ![st.pos] = b]
  IN IF Expired(b)
     THEN [list |-> ListRemove(l1, b), pos |-> st.pos,
           reaped |-> Append(st.reaped, b)]
     ELSE [list |-> l1, pos |-> st.pos + 1, reaped |-> st.reaped]

\* lines 193-196: the loop, until the copy is exhausted.  The state after
\* an iteration is bound as a value before the loop goes on.
RECURSIVE Sweep(_, _)
Sweep(st, d) ==
  IF st.pos > Len(st.list) THEN st
  ELSE CHOOSE r \in { Sweep(after, d) : after \in { SweepStep(st, d) } } : TRUE

\* ---- level selection (lines 168-171) ------------------------------------
\* the advance clamped at the last level instead of wrapped
NextLevelClamped(i) == Min(i + 1, NumLevels - 1)

\* line 169
NextLevel(i) == (i + 1) % NumLevels
\* line 170: the guard of the digit branch
IsLevelKey(k) == K_0 <= k /\ k <= K_5
\* line 171
SelectLevel(k) == Min(k - K_0, NumLevels - 1)

\* ---- TornadoSimulator ----------------------------------------------------
\* __init__ (lines 142-146) and the first line of run()
Init ==
  /\ pc = "loop"
  /\ running = TRUE
  /\ dt = 0
  /\ time = 0
  /\ frame = 0
  /\ events = <<>>
  /\ level_index = 2
  /\ level = -1
  /\ \E r \in [1..NumParticles -> ParticleDraws] :
       particles = [i \in 1..NumParticles |-> ParticleRandom(r[i])]
  /\ debris_particles = <<>>
  /\ reaped = <<>>
  /\ screen = -1

\* the loop going on whatever `running` is
TickAlways ==
  /\ pc = "loop"
  /\ frame < MaxFrames
  /\ \E d \in DtSet : /\ dt' = d
                      /\ time' = time + d
  /\ frame' = frame + 1
  /\ reaped' = <<>>
  /\ pc' = "poll"
  /\ UNCHANGED << running, events, level_index, level, particles,
                  debris_particles, screen >>

\* lines 159-161: the while test passes, the clock ticks
Tick ==
  /\ pc = "loop"
  /\ running
  /\ frame < MaxFrames
  /\ \E d \in DtSet : /\ dt' = d
                      /\ time' = time + d
  /\ frame' = frame + 1
  /\ reaped' = <<>>
  /\ pc' = "poll"
  /\ UNCHANGED << running, events, level_index, level, particles,
                  debris_particles, screen >>

\* line 162: pygame.event.get()
Poll ==
  /\ pc = "poll"
  /\ events' \in Batches
  /\ pc' = "events"
  /\ UNCHANGED << running, dt, time, frame, level_index, level, particles,
                  debris_particles, reaped, screen >>

\* lines 163-171: one iteration of the for loop
HandleEvent ==
  /\ pc = "events"
  /\ events # <<>>
  /\ LET event == Head(events)
     IN IF event.type = "QUIT"
        THEN running' = FALSE /\ UNCHANGED level_index
        ELSE IF event.type = "KEYDOWN"
        THEN IF event.key = K_ESCAPE
             THEN running' = FALSE /\ UNCHANGED level_index
             ELSE IF event.key \in { K_SPACE, K_RETURN }
             THEN level_index' = NextLevel(level_index) /\ UNCHANGED running
             ELSE IF IsLevelKey(event.key)
             THEN level_index' = SelectLevel(event.key) /\ UNCHANGED running
             ELSE UNCHANGED << running, level_index >>
        ELSE UNCHANGED << running, level_index >>
  /\ events' = Tail(events)
  /\ UNCHANGED << pc, dt, time, frame, level, particles, debris_particles, reaped,
                  screen >>

\* update(dt) called from inside the for loop, after the first event
EnterUpdateEarly ==
  /\ pc = "events"
  /\ Len(events) <= 1
  /\ level' = level_index
  /\ events' = <<>>
  /\ pc' = "particles"
  /\ UNCHANGED << running, dt, time, frame, level_index, particles,
                  debris_particles, reaped, screen >>

\* line 173 and line 180: the for loop is over, update(dt) reads the level
EnterUpdate ==
  /\ pc = "events"
  /\ events = <<>>
  /\ level' = level_index
  /\ pc' = "particles"
  /\ UNCHANGED << running, dt, time, frame, events, level_index, particles,
                  debris_particles, reaped, screen >>

\* lines 186-187
UpdateParticles ==
  /\ pc = "particles"
  /\ \E w \in [1..NumParticles -> WrapDraws] :
       particles' = [i \in 1..NumParticles |->
                       ParticleUpdate(particles[i], dt,
                                      current_level(level).swirl,
                                      current_level(level).lift, w[i])]
  /\ pc' = "spawn"
  /\ UNCHANGED << running, dt, time, frame, events, level_index, level,
                  debris_particles, reaped, screen >>

\* lines 190-191: random.random() < debris_rate, then the append
MaybeSpawn ==
  /\ pc = "spawn"
  /\ \/ /\ current_level(level).debris > 0
        /\ \E r \in SpawnDraws :
             debris_particles' = Append(debris_particles, DebrisSpawn(r))
     \/ /\ current_level(level).debris < 100
        /\ UNCHANGED debris_particles
  /\ pc' = "sweep"
  /\ UNCHANGED << running, dt, time, frame, events, level_index, level,
                  particles, reaped, screen >>

\* lines 193-196, and the return of update()
SweepDebris ==
  /\ pc = "sweep"
  /\ \E swept \in { Sweep([list |-> debris_particles, pos |-> 1,
                             reaped |-> <<>>], dt) } :
       /\ debris_particles' = swept.list
       /\ reaped' = swept.reaped
  /\ level' = -1
  /\ pc' = "draw"
  /\ UNCHANGED << running, dt, time, frame, events, level_index, particles,
                  screen >>

\* draw (lines 198-212): reads the state and presents the frame
Draw ==
  /\ pc = "draw"
  /\ screen' = level_index
  /\ pc' = "loop"
  /\ UNCHANGED << running, dt, time, frame, events, level_index, level,
                  particles, debris_particles, reaped >>

\* line 176: the while test fails, pygame.quit()
Quit ==
  /\ pc = "loop"
  /\ ~running
  /\ pc' = "done"
  /\ UNCHANGED << running, dt, time, frame, events, level_index, level,
                  particles, debris_particles, reaped, screen >>

Next ==
  \/ Tick
  \/ Poll
  \/ HandleEvent
  \/ EnterUpdate
  \/ UpdateParticles
  \/ MaybeSpawn
  \/ SweepDebris
  \/ Draw
  \/ Quit

Spec == Init /\ [][Next]_vars

\* the loop is sequential code: a step that can be taken is taken
FairSpec == Spec /\ WF_vars(Next)

\* ---- properties ----------------------------------------------------------
Indices == 1..NumParticles

\* the altitude of particle i after the lift of the tick about to run,
\* with the rates of the current level
Lifted(i) ==
  particles[i].altitude
    + current_level(level_index).lift * dt * (40 + 6 * particles[i].radius_seed)

\* the angle of particle i after the swirl of the tick about to run
Swirled(i) ==
  particles[i].angle
    + current_level(level_index).swirl * dt * particles[i].swirl_variation

\* the event the for loop is about to handle is a key press of one of ks
NextKeyIn(ks) ==
  /\ pc = "events"
  /\ events # <<>>
  /\ Head(events).type = "KEYDOWN"
  /\ Head(events).key \in ks

\* C1: after every Particle.update the altitude of every particle is in
\* [0, H_max], whatever the level and the dt of the tick.
C1_AltitudeInRange ==
  \A i \in Indices :
    particles[i].altitude >= 0 /\ particles[i].altitude <= H_MAX

\* C2: the lifetime of every debris entity strictly decreases in an update
\* tick, and the sweep of TornadoSimulator.update leaves exactly the updated
\* entities with lifetime > 0 and y <= HEIGHT, in their order.
C2_SweepKeepsExactlyTheLive ==
  [][pc = "sweep" =>
       LET n == Len(debris_particles)
           upd == [i \in 1..n |-> DebrisUpdate(debris_particles[i], dt)]
           live(b) == b.lifetime > 0 /\ b.y <= HEIGHT * PosUnit
       IN /\ \A i \in 1..n : upd[i].lifetime < debris_particles[i].lifetime
          /\ debris_particles' = SelectSeq(upd, live)
          /\ \A j \in 1..Len(debris_particles') :
               /\ debris_particles'[j].lifetime > 0
               /\ debris_particles'[j].y <= HEIGHT * PosUnit]_vars

\* C2 witness: an update has ended in which the sweep removed one entity and
\* kept another one.
C2_Witness ==
  /\ pc = "draw"
  /\ reaped # <<>>
  /\ debris_particles # <<>>

\* C3: a digit key above the level range (6 to 9) sets the level index to
\* the last level, 5.
C3_OutOfRangeKeyClamps ==
  [][NextKeyIn((K_5 + 1)..(K_0 + 9)) => level_index' = NumLevels - 1]_vars

\* C4: space or enter at index i sets the index to (i + 1) mod 6, and the
\* index is in 0..5 after any sequence of commands.
C4_NextLevelWraps ==
  /\ [](level_index \in 0..5)
  /\ [][NextKeyIn({ K_SPACE, K_RETURN })
          => level_index' = (level_index + 1) % 6]_vars

\* C4 witness: the index is 0 after the events of a frame.  No event of the
\* model selects level 0, so it was reached from index 5 by space or enter.
C4_Witness ==
  /\ pc = "events"
  /\ events = <<>>
  /\ level_index = 0

C6_ParticleRanges ==
  \A i \in Indices :
    /\ particles[i].angle \in 0..TAU
    /\ particles[i].radius_seed \in 2..10
    /\ particles[i].swirl_variation \in 6..14
    /\ particles[i].brightness \in 5..10

\* C6 (amended): radiusSeed, swirlVariation and brightness are in their
\* ranges and the angle is >= 0 at all times; the angle is in [0, 2 pi)
\* after creation and after a tick that wrapped the particle, and a tick
\* that does not wrap it adds swirlRate*dt*swirlVariation without reducing
\* the sum modulo 2 pi.
C6_RangesWithUnboundedAngle ==
  /\ [](\A i \in Indices :
          /\ particles[i].angle >= 0
          /\ frame = 0 => particles[i].angle <= TAU
          /\ particles[i].radius_seed \in 2..10
          /\ particles[i].swirl_variation \in 6..14
          /\ particles[i].brightness \in 5..10)
  /\ [][pc = "particles" =>
          \A i \in Indices :
            IF Lifted(i) > H_MAX
            THEN particles'[i].angle <= TAU
            ELSE particles'[i].angle = Swirled(i)]_vars

\* C6 witness: a tick has left a particle with an angle of 2 pi or more.
C6_Witness ==
  /\ pc = "spawn"
  /\ \E i \in Indices : particles[i].angle > TAU

\* C7: a debris entity spawned with lifetime L is in the collection only
\* while the dt of its update ticks sum to less than L, and an entity is
\* removed before that only with y above the canvas height.
C7_RemovedWhenLifetimeSpent ==
  /\ \A j \in 1..Len(debris_particles) :
       debris_particles[j].age < debris_particles[j].life0
  /\ \A j \in 1..Len(reaped) :
       \/ reaped[j].age >= reaped[j].life0
       \/ reaped[j].y > HEIGHT * PosUnit

\* C7 witness: the sweep removed an entity of lifetime 1.0 s, still above
\* the bottom of the canvas, in the tick that brought its dt to 1.0 s.
C7_Witness ==
  /\ pc = "draw"
  /\ \E j \in 1..Len(reaped) :
       /\ reaped[j].life0 = 1000
       /\ reaped[j].age = 1000
       /\ reaped[j].age > dt
       /\ reaped[j].y <= HEIGHT * PosUnit

\* C8: a tick wraps a particle exactly when its altitude after the lift is
\* above H_max: then the altitude is the lifted one minus H_max and angle,
\* radiusSeed and brightness are drawn anew; otherwise radiusSeed and
\* brightness are unchanged.  No step changes swirlVariation.
C8_WrapReseeds ==
  [][/\ \A i \in Indices :
          particles'[i].swirl_variation = particles[i].swirl_variation
     /\ pc = "particles" =>
          \A i \in Indices :
            IF Lifted(i) > H_MAX
            THEN /\ particles'[i].altitude = Lifted(i) - H_MAX
                 /\ [angle |-> particles'[i].angle,
                     radius_seed |-> particles'[i].radius_seed,
                     brightness |-> particles'[i].brightness] \in WrapDraws
            ELSE /\ particles'[i].altitude = Lifted(i)
                 /\ particles'[i].radius_seed = particles[i].radius_seed
                 /\ particles'[i].brightness = particles[i].brightness]_vars

\* C8 witness: a tick has wrapped a particle.  Swirl variation 1.4 comes
\* with brightness 1.0 at creation; with brightness 0.5 it was drawn anew.
C8_Witness ==
  /\ pc = "spawn"
  /\ \E i \in Indices :
       /\ particles[i].swirl_variation = 14
       /\ particles[i].brightness = 5
       /\ particles[i].altitude < H_MAX

\* C9: a tick adds swirlRate*dt*swirlVariation to the angle and
\* liftRate*dt*(0.4 + 0.6*radiusSeed) to the altitude of every particle it
\* does not wrap, with the rates of the level current for the tick; the
\* fresh simulator is at EF2, with rates 2.2 and 200.
C9_ExactIncrements ==
  /\ [](frame = 0 =>
          /\ level_index = 2
          /\ current_level(level_index).swirl = 22
          /\ current_level(level_index).lift = 200)
  /\ [][pc = "particles" =>
          \A i \in Indices :
            Lifted(i) <= H_MAX =>
              /\ particles'[i].angle - particles[i].angle
                   = current_level(level_index).swirl * dt
                       * particles[i].swirl_variation
              /\ particles'[i].altitude - particles[i].altitude
                   = current_level(level_index).lift * dt
                       * (40 + 6 * particles[i].radius_seed)]_vars

\* C9 witness: the first tick, at EF2 with dt = 17 ms, has moved a particle
\* created at angle 0 and altitude 0 with swirlVariation 0.6 and
\* radiusSeed 0.2.
C9_Witness ==
  /\ pc = "spawn"
  /\ frame = 1
  /\ dt = 17
  /\ level = 2
  /\ \E i \in Indices :
       /\ particles[i].angle = 22 * 17 * 6
       /\ particles[i].altitude = 200 * 17 * 52

====
